---- MODULE Spec2Model ----
(***************************************************************************)
(* A model of the type-dependency pipeline of dependency_gen.py:           *)
(* the concurrent scan (source_proc and its worker threads around the      *)
(* module-level queue assembly_line), the merge and edge assembly of       *)
(* dep_analysis, verify_data, and the reference classifier symbol_search.  *)
(*                                                                         *)
(* Text is a sequence of one-character strings.  A Python dict is a        *)
(* function whose DOMAIN is its key set.  Value objects (TypeNode,         *)
(* SourceNode, CodeNode) are records, whose equality is the field-wise     *)
(* __eq__ of data_structures.py.                                           *)
(***************************************************************************)
EXTENDS Integers, Sequences, FiniteSets, TLC

\* Largest number of files in the scanned tree.
MaxFiles == 3

\* Longest class body given to symbol_search in SearchSpec.
MaxLen == 4

\* dependency_gen.py:16: the capacity of assembly_line, and the number of
\* worker threads each call of source_proc starts.
max_queue_size == 7

-----------------------------------------------------------------------------
(* Text helpers: str.find, str.split, re.findall(r'\bNAME\b', s).          *)

\* The characters of \w that occur in the modelled text.
WordChars == {"B", "D", "b", "x"}

\* s.find(sub) >= 0
str_contains(s, sub) ==
    \E i \in 1..(Len(s) - Len(sub) + 1) : SubSeq(s, i, i + Len(sub) - 1) = sub

\* s.split(sep): the segments between separators, the empty ones included.
RECURSIVE str_split(_, _)
str_split(s, sep) ==
    IF \A i \in 1..Len(s) : s[i] # sep
    THEN << s >>
    ELSE LET i == CHOOSE j \in 1..Len(s) :
                     s[j] = sep /\ \A m \in 1..(j - 1) : s[m] # sep
         IN  << SubSeq(s, 1, i - 1) >> \o str_split(SubSeq(s, i + 1, Len(s)), sep)

\* re.findall(fr'\b{name}\b', s) is non-empty: name occurs in s with a word
\* boundary on each side (name is an identifier: it starts and ends in \w).
re_findall_word(name, s) ==
    \E i \in 1..(Len(s) - Len(name) + 1) :
        /\ SubSeq(s, i, i + Len(name) - 1) = name
        /\ (i = 1 \/ s[i - 1] \notin WordChars)
        /\ (i + Len(name) - 1 = Len(s) \/ s[i + Len(name)] \notin WordChars)

-----------------------------------------------------------------------------
(* data_structures.py                                                      *)

\* SourceType.parseval: the extension's kind, by full match.
SourceType_parseval(ext) ==
    IF ext \in {".h", ".hpp"} THEN "HEADER"
    ELSE IF ext \in {".c", ".cc", ".cpp", ".c++"} THEN "CPP"
    ELSE "None"

\* TypeClassifier.parseval: the keyword's classifier, by full match.
TypeClassifier_parseval(symbol) ==
    IF symbol \in {"enum", "enum class"} THEN "ENUM"
    ELSE IF symbol = "struct" THEN "STRUCT"
    ELSE IF symbol = "class" THEN "CLASS"
    ELSE "None"

TypeNode(name, classifier, sourceName, sourceType) ==
    [name |-> name, classifier |-> classifier,
     sourceName |-> sourceName, sourceType |-> sourceType]

\* SourceNode(srcFile): os.path.splitext of a basename.
SourceNode(base) == [sourceName |-> base.stem, sourceType |-> base.ext]

\* None and '' are both falsy: either is the empty text.
CodeNode(class_body, inheritance_declare) ==
    [class_body |-> class_body, inheritance_declare |-> inheritance_declare]

\* An EdgeNode object; oid stands for the object's identity.
EdgeNode(oid, caller, callee, refType) ==
    [oid |-> oid, caller |-> caller, callee |-> callee, refType |-> refType]

IsTypeNode(x) == "classifier" \in DOMAIN x

\* EdgeNode.__eq__: anything that is not a TypeNode is unequal.
EdgeNode__eq__(self, other) ==
    IF ~IsTypeNode(other) THEN FALSE
    ELSE /\ self.caller = other.sourceName
         /\ self.callee = other.sourceType
         /\ self.refType = other.name

\* set.add: the element is kept out when the set holds the same object or
\* one equal to it.
set_add(S, e) ==
    IF \E x \in S : x.oid = e.oid \/ EdgeNode__eq__(x, e) THEN S ELSE S \cup {e}

RECURSIVE set_add_all(_, _)
set_add_all(S, todo) ==
    IF todo = {} THEN S
    ELSE LET e == CHOOSE x \in todo : TRUE
         IN  set_add_all(set_add(S, e), todo \ {e})

\* d[key] = val
dict_set(d, key, val) ==
    [x \in DOMAIN d \cup {key} |-> IF x = key THEN val ELSE d[x]]

\* d.update(other)
dict_update(d, other) ==
    [x \in DOMAIN d \cup DOMAIN other |-> IF x \in DOMAIN other THEN other[x] ELSE d[x]]

EmptyDict == [x \in {} |-> x]

-----------------------------------------------------------------------------
(* The reference classifier.                                               *)

\* The statements of the body that name the type as a whole word.
matching_statements(code, name) ==
    SelectSeq(str_split(code.class_body, ";"),
              LAMBDA s : re_findall_word(name, s))

\* symbol_search written with the body test of the unused methodMatch:
\* a statement counts against Composition only with both parentheses.
symbol_search_BothParens(code, types) ==
    LET inh  == IF code.inheritance_declare # << >>
                THEN {t \in types : str_contains(code.inheritance_declare, t.name)}
                ELSE {}
        body == IF code.class_body # << >>
                THEN {t \in types : matching_statements(code, t.name) # << >>}
                ELSE {}
        kind(t) ==
            LET st == matching_statements(code, t.name)
            IN  IF \A i \in 1..Len(st) :
                       ~(str_contains(st[i], << "(" >>) /\ str_contains(st[i], << ")" >>))
                THEN "COMPOSITION" ELSE "METHOD"
    IN  [t \in inh \cup body |-> IF t \in body THEN kind(t) ELSE "INHERITANCE"]

\* symbol_search(code, types): the dict deps.  The inheritance loop runs
\* first; the body loop then assigns deps[t] again for every type that a
\* statement of the body names.
symbol_search(code, types) ==
    LET inh  == IF code.inheritance_declare # << >>
                THEN {t \in types : str_contains(code.inheritance_declare, t.name)}
                ELSE {}
        body == IF code.class_body # << >>
                THEN {t \in types : matching_statements(code, t.name) # << >>}
                ELSE {}
        kind(t) ==
            LET st == matching_statements(code, t.name)
            IN  IF \A i \in 1..Len(st) :
                       ~str_contains(st[i], << "(" >>) /\ ~str_contains(st[i], << ")" >>)
                THEN "COMPOSITION" ELSE "METHOD"
    IN  [t \in inh \cup body |-> IF t \in body THEN kind(t) ELSE "INHERITANCE"]

-----------------------------------------------------------------------------
(* The scanned tree.                                                       *)

Path(dir, stem, ext) == [dir |-> dir, stem |-> stem, ext |-> ext]

\* os.path.basename
basename(p) == [stem |-> p.stem, ext |-> p.ext]

\* The files a tree may hold, in the order find_code_files lists them.
PathOrder ==
    << Path("d1", "A", ".h"), Path("d2", "A", ".h"),
       Path("d2", "A", ".hpp"), Path("d2", "B", ".h") >>

Paths == {PathOrder[i] : i \in 1..Len(PathOrder)}

\* What a file may hold.
Contents == {"base", "derived", "user", "incl", "unreadable"}

\* A file that cannot be opened: codecs.open raises in src_proc.
Readable(content) == content # "unreadable"

\* The declarations of a file: keyword, identifier, inheritance clause and
\* body of each declared type.
\*   base:    class B
\*   derived: #include "B.h"   class D : B { B b; }
\*   user:    class D { B b; }
\*   incl:    #include "B.h"
FileDeclarations(content) ==
    CASE content = "base" ->
           {[keyword |-> "class", name |-> << "B" >>, code |-> CodeNode(<< >>, << >>)]}
      [] content = "derived" ->
           {[keyword |-> "class", name |-> << "D" >>,
             code |-> CodeNode(<< "B", " ", "b", ";" >>, << ":", " ", "B" >>)]}
      [] content = "user" ->
           {[keyword |-> "class", name |-> << "D" >>,
             code |-> CodeNode(<< "B", " ", "b", ";" >>, << >>)]}
      [] OTHER -> {}

\* The targets of a file's #include directives, as written.
FileIncludes(content) ==
    IF content \in {"derived", "incl"} THEN {[stem |-> "B", ext |-> ".h"]} ELSE {}

\* The lists of root folders dep_analysis is called with: one root holding
\* both directories, or one root per directory.
FolderLists == { << {"d1", "d2"} >>, << {"d1"}, {"d2"} >> }

VARIABLES
    tree,             \* the files on disk: path -> content
    folders,          \* the argument of dep_analysis
    pc,               \* the main thread's position
    k,                \* the index of the folder being scanned
    started,          \* calls of source_proc so far; each started a worker pool
    toPut,            \* the files source_proc has still to put
    assembly_line,    \* the module-level queue
    unfinished_tasks, \* the queue's count of items put and not yet task_done
    fstate,           \* path -> where the file is and which pool's worker has it
    includesOf,       \* the includes dict of each call of source_proc
    declaresOf,       \* the declares dict of each call of source_proc
    includes,         \* dep_analysis: the merged file -> includes
    declares,         \* dep_analysis: the merged file -> declarations
    nodes,            \* dep_analysis: the node set
    edges,            \* dep_analysis: the edge set
    s_pc,             \* the classifier run alone: its position,
    s_code,           \*   its CodeNode argument,
    s_deps            \*   and its result

vars == << tree, folders, pc, k, started, toPut, assembly_line, unfinished_tasks,
           fstate, includesOf, declaresOf, includes, declares, nodes, edges,
           s_pc, s_code, s_deps >>

corpus_vars == << tree, folders >>
search_vars == << s_pc, s_code, s_deps >>
result_vars == << includes, declares, nodes, edges >>

-----------------------------------------------------------------------------
(* src_analyzer.py                                                         *)

\* search_type_declares(code, src_file): {TypeNode: code} of the file.  The
\* code written stores the text that follows the declaration head; the
\* value is held here as the CodeNode that symbol_search reads it as.
search_type_declares(p, content) ==
    LET ds == FileDeclarations(content)
        node(d) == TypeNode(d.name, TypeClassifier_parseval(d.keyword),
                            p.stem, SourceType_parseval(p.ext))
    IN  [t \in {node(d) : d \in ds} |->
            (CHOOSE d \in ds : node(d) = t).code]

\* src_proc(src_file): (nodes, includes) of a readable file.  An include
\* counts when its basename has an extension.
src_proc(p, content) ==
    [nodes    |-> search_type_declares(p, content),
     includes |-> {SourceNode(hf) : hf \in {h \in FileIncludes(content) : h.ext # ""}}]

-----------------------------------------------------------------------------
(* dependency_gen.py: source_proc and its workers.                         *)

\* find_code_files(path): the files under a root.
find_code_files(root) ==
    SelectSeq(PathOrder, LAMBDA p : p \in DOMAIN tree /\ p.dir \in root)

Busy == {"got", "declared", "included"}

\* The workers of pool g blocked in assembly_line.get(): the pool's threads
\* less those that hold a file and those an exception ended.
IdleWorkers(g) ==
    max_queue_size
      - Cardinality({p \in DOMAIN tree :
                        fstate[p].gen = g /\ fstate[p].st \in Busy \cup {"failed"}})

\* A join that waits for the queue to be empty instead.
JoinReady_QueueEmpty == assembly_line = << >>

\* assembly_line.join() returns: every item put has been marked done.
JoinReady == unfinished_tasks = 0

Init ==
    /\ \E S \in {X \in SUBSET Paths : Cardinality(X) <= MaxFiles} :
          tree \in [S -> Contents]
    /\ folders \in FolderLists
    /\ pc = "call"
    /\ k = 1
    /\ started = 0
    /\ toPut = << >>
    /\ assembly_line = << >>
    /\ unfinished_tasks = 0
    /\ fstate = [p \in DOMAIN tree |-> [st |-> "pending", gen |-> 0]]
    /\ includesOf = << >>
    /\ declaresOf = << >>
    /\ includes = EmptyDict
    /\ declares = EmptyDict
    /\ nodes = {}
    /\ edges = {}
    /\ s_pc = "off"
    /\ s_code = CodeNode(<< >>, << >>)
    /\ s_deps = EmptyDict

\* dep_analysis calls source_proc(folder): fresh dicts, a fresh pool of
\* max_queue_size daemon threads, and the list of files to put.
SourceProcCall ==
    /\ pc = "call"
    /\ started' = started + 1
    /\ includesOf' = Append(includesOf, EmptyDict)
    /\ declaresOf' = Append(declaresOf, EmptyDict)
    /\ toPut' = find_code_files(folders[k])
    /\ pc' = "put"
    /\ UNCHANGED << k, assembly_line, unfinished_tasks, fstate >>
    /\ UNCHANGED << corpus_vars, result_vars, search_vars >>

\* assembly_line.put(item): blocks while the queue is full.
Put ==
    /\ pc = "put"
    /\ toPut # << >>
    /\ Len(assembly_line) < max_queue_size
    /\ assembly_line' = Append(assembly_line, Head(toPut))
    /\ unfinished_tasks' = unfinished_tasks + 1
    /\ fstate' = [fstate EXCEPT ![Head(toPut)].st = "queued"]
    /\ toPut' = Tail(toPut)
    /\ UNCHANGED << pc, k, started, includesOf, declaresOf >>
    /\ UNCHANGED << corpus_vars, result_vars, search_vars >>

\* assembly_line.join() returns and source_proc returns its two dicts.
Join ==
    /\ pc = "put"
    /\ toPut = << >>
    /\ JoinReady
    /\ pc' = "returned"
    /\ UNCHANGED << k, started, toPut, assembly_line, unfinished_tasks, fstate,
                    includesOf, declaresOf >>
    /\ UNCHANGED << corpus_vars, result_vars, search_vars >>

\* A worker of pool g takes the next path from the queue.  Every pool ever
\* started is still running: a worker never leaves its loop.
WorkerGet(g) ==
    /\ assembly_line # << >>
    /\ IdleWorkers(g) > 0
    /\ fstate' = [fstate EXCEPT ![Head(assembly_line)] = [st |-> "got", gen |-> g]]
    /\ assembly_line' = Tail(assembly_line)
    /\ UNCHANGED << pc, k, started, toPut, unfinished_tasks, includesOf, declaresOf >>
    /\ UNCHANGED << corpus_vars, result_vars, search_vars >>

\* src_proc raises: the exception ends the worker thread, task_done is
\* never called for the file.
WorkerFail(p) ==
    /\ fstate[p].st = "got"
    /\ ~Readable(tree[p])
    /\ fstate' = [fstate EXCEPT ![p].st = "failed"]
    /\ UNCHANGED << pc, k, started, toPut, assembly_line, unfinished_tasks,
                    includesOf, declaresOf >>
    /\ UNCHANGED << corpus_vars, result_vars, search_vars >>

\* ns, incls = src_proc(src_file); if ns: declares[src_name] = ns
\* declares is the dict of the call that started the worker.
WorkerDeclares(p) ==
    /\ fstate[p].st = "got"
    /\ Readable(tree[p])
    /\ LET ns == src_proc(p, tree[p]).nodes
           g  == fstate[p].gen
       IN  declaresOf' =
             IF DOMAIN ns # {}
             THEN [declaresOf EXCEPT ![g] = dict_set(@, SourceNode(basename(p)), ns)]
             ELSE declaresOf
    /\ fstate' = [fstate EXCEPT ![p].st = "declared"]
    /\ UNCHANGED << pc, k, started, toPut, assembly_line, unfinished_tasks, includesOf >>
    /\ UNCHANGED << corpus_vars, result_vars, search_vars >>

\* if incls: includes[src_name] = incls
WorkerIncludes(p) ==
    /\ fstate[p].st = "declared"
    /\ LET incls == src_proc(p, tree[p]).includes
           g     == fstate[p].gen
       IN  includesOf' =
             IF incls # {}
             THEN [includesOf EXCEPT ![g] = dict_set(@, SourceNode(basename(p)), incls)]
             ELSE includesOf
    /\ fstate' = [fstate EXCEPT ![p].st = "included"]
    /\ UNCHANGED << pc, k, started, toPut, assembly_line, unfinished_tasks, declaresOf >>
    /\ UNCHANGED << corpus_vars, result_vars, search_vars >>

\* assembly_line.task_done()
WorkerTaskDone(p) ==
    /\ fstate[p].st = "included"
    /\ unfinished_tasks' = unfinished_tasks - 1
    /\ fstate' = [fstate EXCEPT ![p].st = "done"]
    /\ UNCHANGED << pc, k, started, toPut, assembly_line, includesOf, declaresOf >>
    /\ UNCHANGED << corpus_vars, result_vars, search_vars >>

-----------------------------------------------------------------------------
(* dependency_gen.py: dep_analysis and verify_data.                        *)

\* includes.update(i); declares.update(d); then the next folder.
Update ==
    /\ pc = "returned"
    /\ includes' = dict_update(includes, includesOf[k])
    /\ declares' = dict_update(declares, declaresOf[k])
    /\ k' = k + 1
    /\ pc' = IF k = Len(folders) THEN "assemble" ELSE "call"
    /\ UNCHANGED << started, toPut, assembly_line, unfinished_tasks, fstate,
                    includesOf, declaresOf, nodes, edges >>
    /\ UNCHANGED << corpus_vars, search_vars >>

\* get_included_types resolved against every discovered file of that
\* basename instead of against the merged declares.
get_included_types_Discovered(incl, decl, src) ==
    UNION {DOMAIN search_type_declares(p, tree[p]) :
             p \in {q \in DOMAIN tree :
                      /\ src \in DOMAIN incl
                      /\ SourceNode(basename(q)) \in incl[src]}}

\* get_included_types(src), over the dicts includes and declares.
get_included_types(incl, decl, src) ==
    UNION {DOMAIN decl[s] :
             s \in {x \in (IF src \in DOMAIN incl THEN incl[src] ELSE {}) :
                      x \in DOMAIN decl}}

\* nodes = {k for v in declares.values() for k in v.keys()}
node_set(decl) == UNION {DOMAIN decl[src] : src \in DOMAIN decl}

\* Every EdgeNode the loops of dep_analysis create: one object for each
\* file, each type the file declares and each entry of its deps.
created_edges(incl, decl) ==
    UNION { UNION { { EdgeNode(<< src, t, d >>, t, d,
                               symbol_search(decl[src][t],
                                             get_included_types(incl, decl, src))[d]) :
                      d \in DOMAIN symbol_search(decl[src][t],
                                                 get_included_types(incl, decl, src)) } :
                    t \in DOMAIN decl[src] } :
            src \in DOMAIN decl }

\* edges: the set the loops fill with edges.add.
edge_set(incl, decl) == set_add_all({}, created_edges(incl, decl))

Assemble ==
    /\ pc = "assemble"
    /\ nodes' = node_set(declares)
    /\ edges' = edge_set(includes, declares)
    /\ pc' = "verify"
    /\ UNCHANGED << k, started, toPut, assembly_line, unfinished_tasks, fstate,
                    includesOf, declaresOf, includes, declares >>
    /\ UNCHANGED << corpus_vars, search_vars >>

\* verify_data(nodes, edges): TRUE when no assertion fails.  typeNames is
\* created empty and nothing is ever stored in it.
verify_data(ns, es) ==
    LET typeNames == EmptyDict
    IN  /\ \A n \in ns : n.name \notin DOMAIN typeNames
        /\ \A e \in es : e.caller \in ns /\ e.callee \in ns

Verify ==
    /\ pc = "verify"
    /\ pc' = IF verify_data(nodes, edges) THEN "verified" ELSE "AssertionError"
    /\ UNCHANGED << k, started, toPut, assembly_line, unfinished_tasks, fstate,
                    includesOf, declaresOf >>
    /\ UNCHANGED << corpus_vars, result_vars, search_vars >>

Next ==
    \/ SourceProcCall
    \/ Put
    \/ Join
    \/ \E g \in 1..started : WorkerGet(g)
    \/ \E p \in DOMAIN tree : WorkerFail(p)
    \/ \E p \in DOMAIN tree : WorkerDeclares(p)
    \/ \E p \in DOMAIN tree : WorkerIncludes(p)
    \/ \E p \in DOMAIN tree : WorkerTaskDone(p)
    \/ Update
    \/ Assemble
    \/ Verify

Spec == Init /\ [][Next]_vars

-----------------------------------------------------------------------------
(* The classifier run alone on bounded text.                               *)

Alphabet == {"B", "x", "(", ")", ";", " "}

\* Every text of at most n characters.
Texts(n) == UNION {[1..m -> Alphabet] : m \in 0..n}

\* Inheritance clauses: none, ": B", ": Bx".
InheritanceClauses == { << >>, << ":", "B" >>, << ":", "B", "x" >> }

\* The visible types: B, and Bx whose name holds B's.
SearchTypes ==
    { TypeNode(<< "B" >>, "CLASS", "B", "HEADER"),
      TypeNode(<< "B", "x" >>, "STRUCT", "B", "HEADER") }

SearchInit ==
    /\ tree = EmptyDict
    /\ folders = << >>
    /\ pc = "off"
    /\ k = 1
    /\ started = 0
    /\ toPut = << >>
    /\ assembly_line = << >>
    /\ unfinished_tasks = 0
    /\ fstate = EmptyDict
    /\ includesOf = << >>
    /\ declaresOf = << >>
    /\ includes = EmptyDict
    /\ declares = EmptyDict
    /\ nodes = {}
    /\ edges = {}
    /\ s_pc = "input"
    /\ s_code \in {CodeNode(b, i) : b \in Texts(MaxLen), i \in InheritanceClauses}
    /\ s_deps = EmptyDict

\* deps = symbol_search(code, included_types)
Search ==
    /\ s_pc = "input"
    /\ s_deps' = symbol_search(s_code, SearchTypes)
    /\ s_pc' = "searched"
    /\ UNCHANGED << s_code, corpus_vars, result_vars >>
    /\ UNCHANGED << pc, k, started, toPut, assembly_line, unfinished_tasks, fstate,
                    includesOf, declaresOf >>

SearchNext == Search

SearchSpec == SearchInit /\ [][SearchNext]_vars

-----------------------------------------------------------------------------
(* Properties.                                                             *)

\* dep_analysis has computed nodes and edges.
Assembled == pc \in {"verify", "verified", "AssertionError"}

\* What the extraction of a discovered file yields.
Extracted(p) == src_proc(p, tree[p])

FileKey(p) == SourceNode(basename(p))

\* C1: once dep_analysis has returned, every discovered file whose
\* extraction yields a declaration has its declarations in the merged
\* file->declarations map under its key and in the node set, and its
\* non-empty include set in the merged file->includes map; for the files of
\* every folder and every interleaving of the workers.
C1_EveryFileMerged ==
    Assembled =>
      \A p \in DOMAIN tree :
        Readable(tree[p]) =>
          /\ DOMAIN Extracted(p).nodes # {} =>
               /\ FileKey(p) \in DOMAIN declares
               /\ DOMAIN Extracted(p).nodes \subseteq DOMAIN declares[FileKey(p)]
               /\ DOMAIN Extracted(p).nodes \subseteq nodes
          /\ Extracted(p).includes # {} =>
               /\ FileKey(p) \in DOMAIN includes
               /\ Extracted(p).includes \subseteq includes[FileKey(p)]

\* The scan run by one worker, file after file in queue order: one of the
\* interleavings.
RECURSIVE SequentialScan(_, _, _)
SequentialScan(files, incl, decl) ==
    IF files = << >> THEN [includes |-> incl, declares |-> decl]
    ELSE LET p == Head(files)
             r == Extracted(p)
         IN  IF ~Readable(tree[p]) THEN SequentialScan(Tail(files), incl, decl)
             ELSE SequentialScan(
                    Tail(files),
                    IF r.includes # {} THEN dict_set(incl, FileKey(p), r.includes) ELSE incl,
                    IF DOMAIN r.nodes # {} THEN dict_set(decl, FileKey(p), r.nodes) ELSE decl)

SequentialFolder(i) == SequentialScan(find_code_files(folders[i]), EmptyDict, EmptyDict)

RECURSIVE SequentialMerge(_, _, _)
SequentialMerge(i, incl, decl) ==
    IF i > Len(folders) THEN [includes |-> incl, declares |-> decl]
    ELSE SequentialMerge(i + 1,
                         dict_update(incl, SequentialFolder(i).includes),
                         dict_update(decl, SequentialFolder(i).declares))

SequentialResult == SequentialMerge(1, EmptyDict, EmptyDict)

\* An edge set by value: the (caller, callee, kind) triples in it.
EdgeValues(es) == {<< e.caller, e.callee, e.refType >> : e \in es}

\* C2: the maps source_proc returns, and the node set and edge set
\* dep_analysis returns, are those of the sequential scan of the same tree,
\* whatever the interleaving and completion order of the workers: the
\* result is a function of the tree alone.
C2_ResultIndependentOfInterleaving ==
    /\ pc = "returned" =>
         /\ includesOf[k] = SequentialFolder(k).includes
         /\ declaresOf[k] = SequentialFolder(k).declares
    /\ Assembled =>
         /\ nodes = node_set(SequentialResult.declares)
         /\ EdgeValues(edges) =
              EdgeValues(edge_set(SequentialResult.includes, SequentialResult.declares))

\* C3: a file whose extraction fails is skipped and the scan still
\* completes: once every file has been put and no worker has anything left
\* to do (the queue is empty and no live worker holds a file), the join is
\* released and source_proc returns.
C3_ScanCompletesDespiteFailure ==
    ( /\ pc = "put"
      /\ toPut = << >>
      /\ assembly_line = << >>
      /\ \A p \in DOMAIN tree : fstate[p].st \notin Busy )
    => JoinReady

\* C4: when verify_data completes without failure, the nodes have pairwise
\* distinct names.
C4_VerifiedNamesDistinct ==
    pc = "verified" =>
      \A n1 \in nodes : \A n2 \in nodes : n1 # n2 => n1.name # n2.name

C6_InheritanceRegardlessOfBody ==
    s_pc = "searched" =>
      \A t \in SearchTypes :
        str_contains(s_code.inheritance_declare, t.name) =>
          (t \in DOMAIN s_deps /\ s_deps[t] = "INHERITANCE")

Statements(body) ==
    {SubSeq(body, i, j) :
       << i, j >> \in {ij \in (1..(Len(body) + 1)) \X (0..Len(body)) :
                         /\ ij[1] <= ij[2] + 1
                         /\ \A m \in ij[1]..ij[2] : body[m] # ";"
                         /\ (ij[1] = 1 \/ body[ij[1] - 1] = ";")
                         /\ (ij[2] = Len(body) \/ body[ij[2] + 1] = ";")}}

\* The statements that name the type as a whole word.
Naming(t) == {s \in Statements(s_code.class_body) : re_findall_word(t.name, s)}

HasOpen(s) == str_contains(s, << "(" >>)
HasClose(s) == str_contains(s, << ")" >>)

Is(t, kind) == t \in DOMAIN s_deps /\ s_deps[t] = kind

\* C10 as stated: for a visible type whose name is not in the inheritance
\* clause, Composition exactly when a statement names it and no naming
\* statement holds both '(' and ')', MethodUse exactly when a naming
\* statement holds both, and no entry when no statement names it.
C10_BothParentheses ==
    s_pc = "searched" =>
      \A t \in SearchTypes :
        ~str_contains(s_code.inheritance_declare, t.name) =>
          /\ Is(t, "COMPOSITION") <=>
               (Naming(t) # {} /\ \A s \in Naming(t) : ~(HasOpen(s) /\ HasClose(s)))
          /\ Is(t, "METHOD") <=> (\E s \in Naming(t) : HasOpen(s) /\ HasClose(s))
          /\ t \notin DOMAIN s_deps <=> Naming(t) = {}

\* C10 amended: Composition exactly when a statement names the type and no
\* naming statement holds '(' or ')', MethodUse exactly when a naming
\* statement holds '(' or ')', and no entry when no statement names it.
C10_EitherParenthesis ==
    s_pc = "searched" =>
      \A t \in SearchTypes :
        ~str_contains(s_code.inheritance_declare, t.name) =>
          /\ Is(t, "COMPOSITION") <=>
               (Naming(t) # {} /\ \A s \in Naming(t) : ~HasOpen(s) /\ ~HasClose(s))
          /\ Is(t, "METHOD") <=> (\E s \in Naming(t) : HasOpen(s) \/ HasClose(s))
          /\ t \notin DOMAIN s_deps <=> Naming(t) = {}

\* C10 witness: a type outside the inheritance clause is classified
\* MethodUse though the only statements naming it hold one parenthesis.
C10_Witness ==
    /\ s_pc = "searched"
    /\ \E t \in SearchTypes :
         /\ ~str_contains(s_code.inheritance_declare, t.name)
         /\ Is(t, "METHOD")
         /\ \A s \in Naming(t) : ~(HasOpen(s) /\ HasClose(s))

====
